---- MODULE Spec2Model ----
(***************************************************************************)
(* custom-sql-metrics: the metric store of App (a map from string keys to  *)
(* values), runQuery (one poll of one metric), the per-metric scheduling   *)
(* path collectMetric, and the two HTTP encoders handleMetrics and         *)
(* handleMetricsJSON, all of src/main.go.                                  *)
(*                                                                         *)
(* Go strings are modelled as sequences of one-character strings, so that  *)
(* prefix tests, strings.Index and concatenation are computed as the code  *)
(* computes them.                                                          *)
(***************************************************************************)
EXTENDS Integers, Sequences, FiniteSets, TLC

VARIABLES
    metrics,    \* App.metrics: key string -> stored entry
    last,       \* sequential specification: the operation that ran last
    pc,         \* per metric: position of its collectMetric goroutine
    tick,       \* per metric: ticker.C holds a tick (channel of capacity 1)
    cancelled,  \* ctx.Done() is closed
    running,    \* per metric: runQuery invocations that have not returned
    started,    \* per metric: runQuery invocations started so far
    fired,      \* per metric: ticks the ticker has produced so far
    taken,      \* per metric: ticks received from ticker.C so far
    poll,       \* per metric: the query result the running poll works on
    wlock,      \* metricsMux: the metric whose poll holds the write lock
    rd,         \* per reader: position of the HTTP handler
    seen,       \* per reader: the store as the handler read it
    committed   \* the store as of the last completed critical section

vars == <<metrics, last, pc, tick, cancelled, running, started, fired, taken,
          poll, wlock, rd, seen, committed>>

-----------------------------------------------------------------------------
(* Strings *)

\* byte values of the characters the model uses (sort.Strings compares bytes)
Code(c) ==
    CASE c = "\n" -> 10 [] c = "\"" -> 34
      [] c = "1" -> 49 [] c = "2" -> 50 [] c = "4" -> 52
      [] c = "V" -> 86 [] c = "\\" -> 92 [] c = "_" -> 95
      [] c = "a" -> 97 [] c = "b" -> 98 [] c = "e" -> 101
      [] c = "k" -> 107 [] c = "l" -> 108 [] c = "n" -> 110
      [] c = "s" -> 115 [] c = "u" -> 117 [] c = "v" -> 118
      [] c = "x" -> 120

RECURSIVE StrLess(_, _)
StrLess(a, b) ==
    IF Len(b) = 0 THEN FALSE
    ELSE IF Len(a) = 0 THEN TRUE
    ELSE IF Code(Head(a)) # Code(Head(b)) THEN Code(Head(a)) < Code(Head(b))
    ELSE StrLess(Tail(a), Tail(b))

\* sort.Strings over the keys of a map
RECURSIVE SortStrings(_)
SortStrings(S) ==
    IF S = {} THEN << >>
    ELSE LET m == CHOOSE x \in S : \A y \in S \ {x} : StrLess(x, y)
         IN  <<m>> \o SortStrings(S \ {m})

HasPrefix(k, prefix) ==
    Len(k) >= Len(prefix) /\ SubSeq(k, 1, Len(prefix)) = prefix

\* strings.Index(name, "_"), 0-based, -1 when absent
IndexUnderscore(name) ==
    IF \E i \in 1..Len(name) : name[i] = "_"
    THEN (CHOOSE i \in 1..Len(name) :
              name[i] = "_" /\ \A j \in 1..(i - 1) : name[j] # "_") - 1
    ELSE -1

\* the base name both handlers derive from a store key
BaseName(name) ==
    IF IndexUnderscore(name) > 0
    THEN SubSeq(name, 1, IndexUnderscore(name))
    ELSE name

DigitChar(d) ==
    CASE d = 0 -> "0" [] d = 1 -> "1" [] d = 2 -> "2" [] d = 3 -> "3"
      [] d = 4 -> "4" [] d = 5 -> "5" [] d = 6 -> "6" [] d = 7 -> "7"
      [] d = 8 -> "8" [] d = 9 -> "9"

\* decimal text of a natural number: fmt's %v of an int64, and %g of a
\* float64 holding a whole number below 10^6, which %g writes without an
\* exponent (the values of the model are below 100)
RECURSIVE Decimal(_)
Decimal(n) ==
    IF n < 10 THEN <<DigitChar(n)>>
    ELSE Decimal(n \div 10) \o <<DigitChar(n % 10)>>

IsDigit(c) == c \in {"0", "1", "2", "3", "4", "5", "6", "7", "8", "9"}

DigitVal(c) == CHOOSE d \in 0..9 : DigitChar(d) = c

\* strconv.ParseFloat on a string: ok for a non-empty run of digits
ParseOk(s) == Len(s) > 0 /\ \A i \in 1..Len(s) : IsDigit(s[i])

RECURSIVE ParseVal(_)
ParseVal(s) ==
    IF Len(s) = 0 THEN 0
    ELSE 10 * ParseVal(SubSeq(s, 1, Len(s) - 1)) + DigitVal(s[Len(s)])

-----------------------------------------------------------------------------
(* Values the driver hands to rows.Scan *)

Int64(n) == [t |-> "int64", n |-> n, s |-> << >>]
Bytes(s) == [t |-> "bytes", n |-> 0, s |-> s]
Nil      == [t |-> "nil", n |-> 0, s |-> << >>]

\* runQuery's conversion of a column value to a label value
LabelValue(v) ==
    IF v.t = "nil" THEN <<"n", "u", "l", "l">>
    ELSE IF v.t = "bytes" THEN v.s
    ELSE Decimal(v.n)

EmptyLabels == [k \in {} |-> << >>]

VALUE == <<"v", "a", "l", "u", "e">>

\* a column search that takes Value for value (strings.EqualFold)
ValueIdxAnyCase(columns) ==
    LET IsValue(c) == c = VALUE \/ c = <<"V", "a", "l", "u", "e">>
    IN  IF \E i \in 1..Len(columns) : IsValue(columns[i])
        THEN CHOOSE i \in 1..Len(columns) :
                 IsValue(columns[i]) /\ \A j \in 1..(i - 1) : ~IsValue(columns[j])
        ELSE 0

\* index of the first column named exactly "value"; 0 when there is none
\* (the code's valueIdx + 1)
ValueIdx(columns) ==
    IF \E i \in 1..Len(columns) : columns[i] = VALUE
    THEN CHOOSE i \in 1..Len(columns) :
             columns[i] = VALUE /\ \A j \in 1..(i - 1) : columns[j] # VALUE
    ELSE 0

\* the labels map runQuery builds from one scanned row
RowLabels(columns, vals) ==
    LET vi   == ValueIdx(columns)
        idxs == (1..Len(columns)) \ {vi}
        cols == {columns[i] : i \in idxs}
    IN  [c \in cols |->
            LabelValue(vals[CHOOSE i \in idxs :
                               columns[i] = c
                               /\ \A j \in idxs : columns[j] = c => j <= i])]

\* buildLabelsKey
RECURSIVE JoinLabels(_, _, _)
JoinLabels(keys, labels, i) ==
    IF i > Len(keys) THEN << >>
    ELSE (IF i > 1 THEN <<"_">> ELSE << >>)
         \o keys[i] \o <<"_">> \o labels[keys[i]]
         \o JoinLabels(keys, labels, i + 1)

buildLabelsKey(labels) == JoinLabels(SortStrings(DOMAIN labels), labels, 1)

-----------------------------------------------------------------------------
(* The store *)

MapEntry(value, labels) == [isMap |-> TRUE, value |-> value, labels |-> labels]
RawEntry(value)         == [isMap |-> FALSE, value |-> value, labels |-> EmptyLabels]

EmptyStore == [k \in {} |-> RawEntry(Nil)]

Put(store, k, e) == [x \in DOMAIN store \cup {k} |-> IF x = k THEN e ELSE store[x]]

Prefix(name) == name \o <<"_">>

\* runQuery's removal loop: delete every key that starts with prefix
DeletePrefix(store, prefix) ==
    [k \in {x \in DOMAIN store : ~HasPrefix(x, prefix)} |-> store[k]]

\* the body of the rows.Next() loop for one row
StoreRow(store, name, columns, row) ==
    IF row.scanErr THEN store
    ELSE LET labels == RowLabels(columns, row.vals)
             value  == row.vals[ValueIdx(columns)]
         IN  IF DOMAIN labels # {}
             THEN Put(store, Prefix(name) \o buildLabelsKey(labels),
                      MapEntry(value, labels))
             ELSE Put(store, name, RawEntry(value))

RECURSIVE StoreRows(_, _, _, _, _)
StoreRows(store, name, columns, rows, i) ==
    IF i > Len(rows) THEN store
    ELSE StoreRows(StoreRow(store, name, columns, rows[i]), name, columns, rows, i + 1)

\* a poll returns before taking the lock: db.Query failed, rows.Columns
\* failed, or no column is named "value"
FailsEarly(res) == res.qerr \/ res.cerr \/ ValueIdx(res.columns) = 0

\* the store after the whole of runQuery(metric) on query result res
AfterRunQuery(store, name, res) ==
    IF FailsEarly(res) THEN store
    ELSE StoreRows(DeletePrefix(store, Prefix(name)), name, res.columns, res.rows, 1)

-----------------------------------------------------------------------------
(* Configuration and query results *)

U  == <<"u">>
US == <<"u", "_", "s">>

\* config.Metrics: the names of the configured metrics
MetricNames == {U, US}

ColK == <<"k">>
ColL == <<"l">>
StrA == <<"a">>
StrB == <<"b">>

Row(vals) == [scanErr |-> FALSE, vals |-> vals]
BadRow    == [scanErr |-> TRUE, vals |-> << >>]

Res(columns, rows) ==
    [qerr |-> FALSE, cerr |-> FALSE, columns |-> columns, rows |-> rows, rerr |-> FALSE]

QueryError   == [Res(<< >>, << >>) EXCEPT !.qerr = TRUE]
ColumnsError == [Res(<< >>, << >>) EXCEPT !.cerr = TRUE]
NoValueCol   == Res(<<ColK>>, <<Row(<<Bytes(StrA)>>)>>)
UpperValue   == Res(<<<<"V", "a", "l", "u", "e">>>>, <<Row(<<Int64(1)>>)>>)
ZeroRows     == Res(<<VALUE>>, << >>)
Scalar1      == Res(<<VALUE>>, <<Row(<<Int64(1)>>)>>)
ScalarNull   == Res(<<VALUE>>, <<Row(<<Nil>>)>>)
TwoSeries    == Res(<<ColK, VALUE>>, <<Row(<<Bytes(StrA), Int64(1)>>), Row(<<Bytes(StrB), Int64(2)>>)>>)
\* two rows with different label sets whose joined keys are both k_a_l_b_l_a
Ambiguous    == Res(<<ColK, ColL, VALUE>>,
                    <<Row(<<Bytes(<<"a", "_", "l", "_", "b">>), Bytes(StrA), Int64(1)>>),
                      Row(<<Bytes(StrA), Bytes(<<"b", "_", "l", "_", "a">>), Int64(2)>>)>>)
ScanFails    == Res(<<ColK, VALUE>>, <<Row(<<Bytes(StrA), Int64(1)>>), BadRow,
                                    Row(<<Bytes(StrB), Int64(2)>>)>>)
CursorFails  == [Res(<<ColK, VALUE>>, <<Row(<<Bytes(StrA), Int64(1)>>),
                                        Row(<<Bytes(StrB), Int64(2)>>)>>)
                    EXCEPT !.rerr = TRUE]
\* a value that is text and no number, and one that is the text of a number
NonNumeric   == Res(<<ColK, VALUE>>, <<Row(<<Bytes(StrA), Bytes(<<"x">>)>>),
                                       Row(<<Bytes(StrB), Bytes(<<"4", "2">>)>>)>>)

\* the query results the polls of the sequential specification draw from
Results ==
    {QueryError, ColumnsError, NoValueCol, UpperValue, ZeroRows, Scalar1,
     ScalarNull, TwoSeries, Ambiguous, ScanFails, CursorFails, NonNumeric}

-----------------------------------------------------------------------------
(* Map iteration order *)

\* the orders in which a range loop may visit the keys S
RECURSIVE Orders(_)
Orders(S) ==
    IF S = {} THEN {<< >>}
    ELSE UNION {{<<x>> \o p : p \in Orders(S \ {x})} : x \in S}

\* one visiting order of the labels of every entry whose key is in keys
RECURSIVE LabelOrdersOver(_, _)
LabelOrdersOver(store, keys) ==
    IF keys = {} THEN {[k \in {} |-> << >>]}
    ELSE LET k == CHOOSE x \in keys : TRUE
         IN  {[x \in DOMAIN f \cup {k} |-> IF x = k THEN o ELSE f[x]] :
                 f \in LabelOrdersOver(store, keys \ {k}),
                 o \in Orders(DOMAIN store[k].labels)}

LabelOrders(store) == LabelOrdersOver(store, DOMAIN store)

-----------------------------------------------------------------------------
(* handleMetrics: the Prometheus encoder *)

\* the type switch of handleMetrics: the values it converts to float64
Numeric(v) == v.t = "int64" \/ (v.t = "bytes" /\ ParseOk(v.s))

FloatOf(v) == IF v.t = "int64" THEN v.n ELSE ParseVal(v.s)

\* strings.ReplaceAll(value, c, rep) for a one-character c
RECURSIVE ReplaceAll(_, _, _)
ReplaceAll(value, c, rep) ==
    IF Len(value) = 0 THEN << >>
    ELSE (IF Head(value) = c THEN rep ELSE <<Head(value)>>)
         \o ReplaceAll(Tail(value), c, rep)

\* an escaping made of three passes, the backslash pass last
escapeThreePasses(value) ==
    ReplaceAll(ReplaceAll(ReplaceAll(value, "\n", <<"\\", "n">>),
                          "\"", <<"\\", "\"">>),
               "\\", <<"\\", "\\">>)

\* escapeLabelValue: one left-to-right pass of the replacer
RECURSIVE escapeLabelValue(_)
escapeLabelValue(value) ==
    IF Len(value) = 0 THEN << >>
    ELSE (CASE Head(value) = "\\" -> <<"\\", "\\">>
            [] Head(value) = "\n" -> <<"\\", "n">>
            [] Head(value) = "\"" -> <<"\\", "\"">>
            [] OTHER -> <<Head(value)>>)
         \o escapeLabelValue(Tail(value))

HelpLine(name) == [kind |-> "HELP", name |-> name, labels |-> << >>, val |-> << >>]
TypeLine(name) == [kind |-> "TYPE", name |-> name, labels |-> << >>, val |-> << >>]
SampleLine(name, labels, val) ==
    [kind |-> "SAMPLE", name |-> name, labels |-> labels, val |-> val]

\* the k="v" pairs between the braces, in the order the labels are visited
LabelPairs(labels, lorder) ==
    [i \in 1..Len(lorder) |-> <<lorder[i], escapeLabelValue(labels[lorder[i]])>>]

\* a loop body without the two `continue`s: floatValue is still 0 when the
\* value is not numeric
EntryLinesNoSkip(name, e, lorder) ==
    <<HelpLine(BaseName(name)), TypeLine(BaseName(name)),
      SampleLine(BaseName(name),
                 IF e.isMap THEN LabelPairs(e.labels, lorder) ELSE << >>,
                 IF Numeric(e.value) THEN Decimal(FloatOf(e.value)) ELSE <<"0">>)>>

\* the lines one iteration of handleMetrics' loop writes for one store entry
EntryLines(name, e, lorder) ==
    IF ~Numeric(e.value) THEN << >>
    ELSE <<HelpLine(BaseName(name)), TypeLine(BaseName(name)),
           SampleLine(BaseName(name),
                      IF e.isMap THEN LabelPairs(e.labels, lorder) ELSE << >>,
                      Decimal(FloatOf(e.value)))>>

\* the body handleMetrics writes when it visits the keys in `order`
RECURSIVE PromBody(_, _, _, _)
PromBody(store, order, lorders, i) ==
    IF i > Len(order) THEN << >>
    ELSE EntryLines(order[i], store[order[i]], lorders[order[i]])
         \o PromBody(store, order, lorders, i + 1)

-----------------------------------------------------------------------------
(* handleMetricsJSON: the JSON encoder *)

\* encoding/json of a stored value: an int64 is a number, a []byte is a
\* string holding the base64 text of the bytes, nil is null
JSONValue(v) ==
    IF v.t = "int64" THEN [j |-> "number", text |-> Decimal(v.n)]
    ELSE IF v.t = "bytes" THEN [j |-> "base64string", text |-> v.s]
    ELSE [j |-> "null", text |-> << >>]

\* encoding/json of a string (encodeState.string with escapeHTML, the
\* default of json.Encoder): the characters written between the quotes
RECURSIVE JSONString(_)
JSONString(str) ==
    IF Len(str) = 0 THEN << >>
    ELSE (CASE Head(str) = "\\" -> <<"\\", "\\">>
            [] Head(str) = "\"" -> <<"\\", "\"">>
            [] Head(str) = "\n" -> <<"\\", "n">>
            [] Head(str) = "<" -> <<"\\", "u", "0", "0", "3", "c">>
            [] OTHER -> <<Head(str)>>)
         \o JSONString(Tail(str))

JSONList(list)   == [isList |-> TRUE, list |-> list, value |-> JSONValue(Nil)]
JSONScalar(v)    == [isList |-> FALSE, list |-> << >>, value |-> JSONValue(v)]
JSONSeries(e)    ==
    [value |-> JSONValue(e.value),
     labels |-> [k \in DOMAIN e.labels |-> JSONString(e.labels[k])]]

\* one iteration of handleMetricsJSON's loop: response after visiting name
JSONStep(response, name, e) ==
    IF e.isMap
    THEN LET baseName == BaseName(name)
             existing == IF baseName \in DOMAIN response /\ response[baseName].isList
                         THEN response[baseName].list
                         ELSE << >>
         IN  Put(response, baseName, JSONList(Append(existing, JSONSeries(e))))
    ELSE Put(response, name, JSONScalar(e.value))

EmptyResponse == [k \in {} |-> JSONList(<< >>)]

\* the response object handleMetricsJSON encodes when it visits the keys in `order`
RECURSIVE JSONDoc(_, _, _, _)
JSONDoc(response, store, order, i) ==
    IF i > Len(order) THEN response
    ELSE JSONDoc(JSONStep(response, order[i], store[order[i]]), store, order, i + 1)

-----------------------------------------------------------------------------
(* The sequential specification: polls and requests, one at a time *)

NoOp == [op |-> "none", m |-> << >>, res |-> ZeroRows, before |-> EmptyStore,
         out |-> << >>, doc |-> EmptyResponse]

SchedInit ==
    /\ pc = [m \in MetricNames |-> "start"]
    /\ tick = [m \in MetricNames |-> FALSE]
    /\ cancelled = FALSE
    /\ running = [m \in MetricNames |-> 0]
    /\ started = [m \in MetricNames |-> 0]
    /\ fired = [m \in MetricNames |-> 0]
    /\ taken = [m \in MetricNames |-> 0]
    /\ poll = [m \in MetricNames |-> [res |-> ZeroRows, i |-> 1]]
    /\ wlock = << >>
    /\ rd = "idle"
    /\ seen = EmptyStore
    /\ committed = EmptyStore

schedVars == <<pc, tick, cancelled, running, started, fired, taken, poll, wlock,
               rd, seen, committed>>

\* NewApp: metrics: make(map[string]interface{})
SeqInit ==
    /\ metrics = EmptyStore
    /\ last = NoOp
    /\ SchedInit

\* runQuery(metric) from db.Query to return, on query result res
RunQuery(m, res) ==
    /\ metrics' = AfterRunQuery(metrics, m, res)
    /\ last' = [NoOp EXCEPT !.op = "poll", !.m = m, !.res = res, !.before = metrics]
    /\ UNCHANGED schedVars

\* A request leaves the store as it is, so a request that follows a request
\* reaches no state that a request following a poll (or the start) does not
\* reach: the sequential specification serves requests at those points.
Served == last.op \in {"prom", "json", "health"}

\* a GET /metrics that collects on request: it runs the query of u and
\* serves what the poll stored
HandleMetricsCollects ==
    /\ ~Served
    /\ metrics' = AfterRunQuery(metrics, U, Scalar1)
    /\ \E order \in Orders(DOMAIN metrics') : \E lorders \in LabelOrders(metrics') :
          last' = [NoOp EXCEPT !.op = "prom", !.before = metrics,
                               !.out = PromBody(metrics', order, lorders, 1)]
    /\ UNCHANGED schedVars

\* GET /metrics
HandleMetrics ==
    /\ ~Served
    /\ \E order \in Orders(DOMAIN metrics) : \E lorders \in LabelOrders(metrics) :
          last' = [NoOp EXCEPT !.op = "prom", !.before = metrics,
                               !.out = PromBody(metrics, order, lorders, 1)]
    /\ UNCHANGED <<metrics, schedVars>>

\* GET /metrics.json
HandleMetricsJSON ==
    /\ ~Served
    /\ \E order \in Orders(DOMAIN metrics) :
          last' = [NoOp EXCEPT !.op = "json", !.before = metrics,
                               !.doc = JSONDoc(EmptyResponse, metrics, order, 1)]
    /\ UNCHANGED <<metrics, schedVars>>

\* the status line and body handleHealth writes
HealthResponse(pingErr) ==
    [kind |-> "STATUS",
     name |-> IF pingErr THEN <<"5", "0", "3">> ELSE <<"2", "0", "0">>,
     labels |-> << >>,
     val |-> IF pingErr THEN <<"e", "r", "r", "o", "r">> ELSE <<"O", "K">>]

\* GET /health: db.Ping fails or succeeds
HandleHealth ==
    /\ ~Served
    /\ \E pingErr \in BOOLEAN :
          last' = [NoOp EXCEPT !.op = "health", !.before = metrics,
                               !.out = <<HealthResponse(pingErr)>>]
    /\ UNCHANGED <<metrics, schedVars>>

SeqNext ==
    \/ \E m \in MetricNames : \E res \in Results : RunQuery(m, res)
    \/ HandleMetrics
    \/ HandleMetricsJSON
    \/ HandleHealth

SeqSpec == SeqInit /\ [][SeqNext]_vars

-----------------------------------------------------------------------------
(* The concurrent specification: one collectMetric goroutine per metric,   *)
(* the ticker of each, the context, and an HTTP handler, interleaved       *)

\* ticks each ticker produces in a run
MaxTicks == 2

\* the query results the polls of the concurrent specification draw from
PollResults == {QueryError, ColumnsError, NoValueCol, ZeroRows, Scalar1,
                ScanFails, CursorFails}

Unlocked == << >>

Init ==
    /\ metrics = EmptyStore
    /\ last = NoOp
    /\ SchedInit

\* the call a.runQuery(metric): the path is inside runQuery until it returns
StartRunQuery(m) ==
    /\ running' = [running EXCEPT ![m] = @ + 1]
    /\ started' = [started EXCEPT ![m] = @ + 1]
    /\ pc' = [pc EXCEPT ![m] = "query"]

\* runQuery returns to collectMetric, which goes (back) to its select
ReturnToSelect(m) ==
    /\ running' = [running EXCEPT ![m] = @ - 1]
    /\ pc' = [pc EXCEPT ![m] = "select"]

\* a collectMetric that goes to its select without the immediate poll
SkipFirstPoll(m) ==
    /\ pc[m] = "start"
    /\ pc' = [pc EXCEPT ![m] = "select"]
    /\ UNCHANGED <<metrics, last, tick, cancelled, running, started, fired, taken,
                   poll, wlock, rd, seen, committed>>

\* collectMetric: the poll made right after the ticker is created
FirstPoll(m) ==
    /\ pc[m] = "start"
    /\ StartRunQuery(m)
    /\ UNCHANGED <<metrics, last, tick, cancelled, fired, taken, poll, wlock,
                   rd, seen, committed>>

\* a select that does not wait for runQuery (go a.runQuery(metric))
AtSelectOrPolling(m) == pc[m] \notin {"start", "done"}

\* the select of collectMetric can take a tick: the path is at the select
AtSelect(m) == pc[m] = "select"

\* a select whose tick case leaves the tick in the channel
TickPollKeepsTick(m) ==
    /\ AtSelect(m)
    /\ tick[m]
    /\ taken' = [taken EXCEPT ![m] = @ + 1]
    /\ StartRunQuery(m)
    /\ UNCHANGED <<metrics, last, tick, cancelled, fired, poll, wlock, rd, seen,
                   committed>>

\* collectMetric: case <-ticker.C
TickPoll(m) ==
    /\ AtSelect(m)
    /\ tick[m]
    /\ tick' = [tick EXCEPT ![m] = FALSE]
    /\ taken' = [taken EXCEPT ![m] = @ + 1]
    /\ StartRunQuery(m)
    /\ UNCHANGED <<metrics, last, cancelled, fired, poll, wlock, rd, seen, committed>>

\* collectMetric: case <-ctx.Done()
Done(m) ==
    /\ pc[m] = "select"
    /\ cancelled
    /\ pc' = [pc EXCEPT ![m] = "done"]
    /\ UNCHANGED <<metrics, last, tick, cancelled, running, started, fired, taken,
                   poll, wlock, rd, seen, committed>>

\* the ticker of metric m fires: the tick is dropped when ticker.C is full
Tick(m) ==
    /\ pc[m] # "done"
    /\ fired[m] < MaxTicks
    /\ fired' = [fired EXCEPT ![m] = @ + 1]
    /\ tick' = [tick EXCEPT ![m] = TRUE]
    /\ UNCHANGED <<metrics, last, pc, cancelled, running, started, taken, poll,
                   wlock, rd, seen, committed>>

\* the context passed to Start is cancelled
Cancel ==
    /\ ~cancelled
    /\ cancelled' = TRUE
    /\ UNCHANGED <<metrics, last, pc, tick, running, started, fired, taken, poll,
                   wlock, rd, seen, committed>>

\* a runQuery whose early failure ends the goroutine (log.Fatalf for
\* log.Printf)
QueryOfFatal(m, results) ==
    /\ pc[m] = "query"
    /\ \E res \in results :
          IF FailsEarly(res)
          THEN /\ running' = [running EXCEPT ![m] = @ - 1]
               /\ pc' = [pc EXCEPT ![m] = "done"]
               /\ UNCHANGED poll
          ELSE /\ poll' = [poll EXCEPT ![m] = [res |-> res, i |-> 1]]
               /\ pc' = [pc EXCEPT ![m] = "lock"]
               /\ UNCHANGED running
    /\ UNCHANGED <<metrics, last, tick, cancelled, started, fired, taken, wlock,
                   rd, seen, committed>>

\* runQuery: db.Query, rows.Columns and the search for the value column,
\* the query result being one of results
QueryOf(m, results) ==
    /\ pc[m] = "query"
    /\ \E res \in results :
          IF FailsEarly(res)
          THEN ReturnToSelect(m) /\ UNCHANGED poll
          ELSE /\ poll' = [poll EXCEPT ![m] = [res |-> res, i |-> 1]]
               /\ pc' = [pc EXCEPT ![m] = "lock"]
               /\ UNCHANGED running
    /\ UNCHANGED <<metrics, last, tick, cancelled, started, fired, taken, wlock,
                   rd, seen, committed>>

Query(m) == QueryOf(m, PollResults)

\* metricsMux.Lock() can return: no writer and no reader holds the mutex
CanLock == wlock = Unlocked /\ rd = "idle"

\* runQuery: a.metricsMux.Lock()
Lock(m) ==
    /\ pc[m] = "lock"
    /\ CanLock
    /\ wlock' = m
    /\ pc' = [pc EXCEPT ![m] = "delete"]
    /\ UNCHANGED <<metrics, last, tick, cancelled, running, started, fired, taken,
                   poll, rd, seen, committed>>

\* runQuery: the loop that deletes the keys with the metric's prefix
Delete(m) ==
    /\ pc[m] = "delete"
    /\ metrics' = DeletePrefix(metrics, Prefix(m))
    /\ pc' = [pc EXCEPT ![m] = "rows"]
    /\ UNCHANGED <<last, tick, cancelled, running, started, fired, taken, poll,
                   wlock, rd, seen, committed>>

\* runQuery: one iteration of the rows.Next() loop
NextRow(m) ==
    /\ pc[m] = "rows"
    /\ poll[m].i <= Len(poll[m].res.rows)
    /\ metrics' = StoreRow(metrics, m, poll[m].res.columns, poll[m].res.rows[poll[m].i])
    /\ poll' = [poll EXCEPT ![m].i = @ + 1]
    /\ UNCHANGED <<last, pc, tick, cancelled, running, started, fired, taken,
                   wlock, rd, seen, committed>>

\* runQuery: rows.Next() is false; rows.Err is logged, the deferred Unlock
\* and rows.Close run and runQuery returns
Unlock(m) ==
    /\ pc[m] = "rows"
    /\ poll[m].i > Len(poll[m].res.rows)
    /\ wlock' = Unlocked
    /\ committed' = metrics
    /\ ReturnToSelect(m)
    /\ UNCHANGED <<metrics, last, tick, cancelled, started, fired, taken, poll,
                   rd, seen>>

\* a handler that reads without the read lock
CanRLockAlways == TRUE

\* metricsMux.RLock() can return: no writer holds the mutex
CanRLock == wlock = Unlocked

\* handleMetrics / handleMetricsJSON: a.metricsMux.RLock()
RLock ==
    /\ rd = "idle"
    /\ CanRLock
    /\ rd' = "locked"
    /\ UNCHANGED <<metrics, last, pc, tick, cancelled, running, started, fired,
                   taken, poll, wlock, seen, committed>>

\* handleMetrics / handleMetricsJSON: the range loop over a.metrics
ReadAll ==
    /\ rd = "locked"
    /\ seen' = metrics
    /\ rd' = "read"
    /\ UNCHANGED <<metrics, last, pc, tick, cancelled, running, started, fired,
                   taken, poll, wlock, committed>>

\* handleMetrics / handleMetricsJSON: the deferred RUnlock; the response is sent
RUnlock ==
    /\ rd = "read"
    /\ rd' = "idle"
    /\ seen' = EmptyStore
    /\ UNCHANGED <<metrics, last, pc, tick, cancelled, running, started, fired,
                   taken, poll, wlock, committed>>

PathStep(m) ==
    \/ FirstPoll(m)
    \/ TickPoll(m)
    \/ Done(m)
    \/ Query(m)
    \/ Lock(m)
    \/ Delete(m)
    \/ NextRow(m)
    \/ Unlock(m)

Next ==
    \/ \E m \in MetricNames : PathStep(m)
    \/ \E m \in MetricNames : Tick(m)
    \/ Cancel
    \/ RLock
    \/ ReadAll
    \/ RUnlock

Spec == Init /\ [][Next]_vars

-----------------------------------------------------------------------------
(* Claims about runQuery and the store (sequential specification) *)

\* The metric a store key was written for. The label columns of Results are
\* k and l, so no series of u has a key that starts with u_s.
FamilyOf(k) == IF k = US \/ HasPrefix(k, Prefix(US)) THEN US ELSE U

SeriesKeys(store, m) == {k \in DOMAIN store : FamilyOf(k) = m}

PolledOk == last.op = "poll" /\ ~last.res.qerr /\ ~last.res.cerr
            /\ \E i \in 1..Len(last.res.columns) : last.res.columns[i] = VALUE

\* C2: after a poll of M whose query succeeds, has a value column and
\* returns zero rows, the store holds no series of family M, whatever M
\* held before (labeled series or one unlabeled value).
C2_ZeroRowsClearFamily ==
    (PolledOk /\ last.res.rows = << >>) => SeriesKeys(metrics, last.m) = {}

\* C3: a poll whose query fails, whose column list cannot be read or whose
\* result has no column named exactly value leaves the whole store as it was.
C3_EarlyFailureKeepsStore ==
    (last.op = "poll"
     /\ (\/ last.res.qerr
         \/ last.res.cerr
         \/ \A i \in 1..Len(last.res.columns) : last.res.columns[i] # VALUE))
    => metrics = last.before

\* C3 witness: a result whose only column is named Value was polled over a
\* store that held series
C3_Witness ==
    /\ last.op = "poll"
    /\ last.res = UpperValue
    /\ DOMAIN last.before # {}
    /\ \E k \in DOMAIN last.before : last.before[k].isMap

\* C4: every row a poll decoded has its own entry in the store afterwards:
\* rows with different label sets never share an entry.
C4_DistinctLabelSetsDistinctEntries ==
    PolledOk =>
        \A i \in 1..Len(last.res.rows) :
            LET row == last.res.rows[i]
            IN  (~row.scanErr /\ DOMAIN RowLabels(last.res.columns, row.vals) # {})
                => \E k \in SeriesKeys(metrics, last.m) :
                       /\ metrics[k].isMap
                       /\ metrics[k].labels = RowLabels(last.res.columns, row.vals)

-----------------------------------------------------------------------------
(* Claims about the encoders (sequential specification) *)

LinesOf(out, kind, name) ==
    {i \in 1..Len(out) : out[i].kind = kind /\ out[i].name = name}

\* C5: the Prometheus output has, for every family with a sample line,
\* exactly one HELP line and exactly one TYPE line naming it.
C5_OneHelpTypePerFamily ==
    last.op = "prom" =>
        \A i \in 1..Len(last.out) :
            last.out[i].kind = "SAMPLE"
            => /\ Cardinality(LinesOf(last.out, "HELP", last.out[i].name)) = 1
               /\ Cardinality(LinesOf(last.out, "TYPE", last.out[i].name)) = 1

\* the store holds the numeric unlabeled value of metric m and no labeled
\* series of m: the state a poll of m with one value-only row leaves
HoldsScalar(store, m) ==
    /\ m \in DOMAIN store
    /\ ~store[m].isMap
    /\ Numeric(store[m].value)
    /\ SeriesKeys(store, m) = {m}

\* C6: an unlabeled numeric value v of the configured metric F is written
\* as the sample line `F v` by the Prometheus encoder and as the key F with
\* the bare value v by the JSON encoder.
C6_UnlabeledUnderFullName ==
    \A m \in MetricNames :
        HoldsScalar(last.before, m) =>
            /\ last.op = "prom" =>
                   \E i \in 1..Len(last.out) :
                       last.out[i] = SampleLine(m, << >>,
                                                Decimal(FloatOf(last.before[m].value)))
            /\ last.op = "json" =>
                   /\ m \in DOMAIN last.doc
                   /\ last.doc[m] = JSONScalar(last.before[m].value)

\* C7: the JSON document gives back the family-to-series mapping: a family
\* with labeled series is an array under its own name with one object per
\* stored series, an unlabeled family is its bare value under its name.
C7_JSONRecoversFamilies ==
    last.op = "json" =>
        \A m \in MetricNames :
            LET labeled == {k \in SeriesKeys(last.before, m) : last.before[k].isMap}
            IN  /\ (labeled # {} /\ m \notin DOMAIN last.before) =>
                       /\ m \in DOMAIN last.doc
                       /\ last.doc[m].isList
                       /\ Len(last.doc[m].list) = Cardinality(labeled)
                       /\ \A k \in labeled :
                              \E i \in 1..Len(last.doc[m].list) :
                                  last.doc[m].list[i] = JSONSeries(last.before[k])
                /\ (labeled = {} /\ m \in DOMAIN last.before) =>
                       /\ m \in DOMAIN last.doc
                       /\ last.doc[m] = JSONScalar(last.before[m].value)

\* C8: a second run of an encoder over the same store gives the same output
\* as the first: the same Prometheus body, and the same order of series in
\* each array of the JSON document.
C8_EncodingDeterministic ==
    /\ last.op = "prom" =>
           \A order \in Orders(DOMAIN last.before) :
               \A lorders \in LabelOrders(last.before) :
                   PromBody(last.before, order, lorders, 1) = last.out
    /\ last.op = "json" =>
           \A order \in Orders(DOMAIN last.before) :
               JSONDoc(EmptyResponse, last.before, order, 1) = last.doc

-----------------------------------------------------------------------------
(* Claims about scheduling and locking (concurrent specification) *)

\* the query results the polls of the fair specification draw from
LiveResults == {QueryError, Scalar1}

LiveQuery(m) == QueryOf(m, LiveResults)

LiveNext ==
    \/ \E m \in MetricNames :
          \/ FirstPoll(m)
          \/ TickPoll(m)
          \/ Done(m)
          \/ LiveQuery(m)
          \/ Lock(m)
          \/ Delete(m)
          \/ NextRow(m)
          \/ Unlock(m)
    \/ \E m \in MetricNames : Tick(m)
    \/ Cancel
    \/ RLock
    \/ ReadAll
    \/ RUnlock

\* The Go scheduler runs every goroutine that can run, a query returns, a
\* blocked Lock is granted once the mutex is free (sync.RWMutex), and a
\* handler that holds the read lock finishes.
Fairness ==
    /\ \A m \in MetricNames :
          /\ WF_vars(FirstPoll(m))
          /\ WF_vars(TickPoll(m))
          /\ WF_vars(LiveQuery(m))
          /\ SF_vars(Lock(m))
          /\ WF_vars(Delete(m))
          /\ WF_vars(NextRow(m))
          /\ WF_vars(Unlock(m))
    /\ WF_vars(ReadAll)
    /\ WF_vars(RUnlock)

FairSpec == Init /\ [][LiveNext]_vars /\ Fairness

\* C1: a handler reads the store only while no poll is between its Lock and
\* its Unlock, and what it reads is the store as a completed poll left it:
\* never a family some of whose series are the old ones and some the new.
C1_ReadsSeeWholePolls ==
    /\ rd \in {"locked", "read"} => wlock = Unlocked /\ metrics = committed
    /\ rd = "read" => seen = committed

\* C1 witness: a handler holds a snapshot with both series of a family while
\* a poll that will replace that family waits for the lock
C1_Witness ==
    /\ rd = "read"
    /\ \E m \in MetricNames :
          /\ pc[m] = "lock"
          /\ Cardinality({k \in DOMAIN seen : HasPrefix(k, Prefix(m))}) = 2

\* C9: each path polls once before it receives any tick and once for every
\* tick it receives; and, under Fairness, a tick that is in the channel is
\* answered by a poll of that metric unless shutdown has been signalled.
C9_ImmediateThenPerTick ==
    /\ [](\A m \in MetricNames :
             /\ pc[m] = "start" => started[m] = 0 /\ taken[m] = 0
             /\ pc[m] # "start" => started[m] = taken[m] + 1)
    /\ \A m \in MetricNames : tick[m] ~> (~tick[m] \/ cancelled)

\* C9 witness: a metric has been polled at start and once per tick, twice,
\* while the other path has not yet made its first poll
C9_Witness ==
    /\ ~cancelled
    /\ \E m \in MetricNames :
          /\ started[m] = 3
          /\ taken[m] = 2
          /\ \E o \in MetricNames \ {m} : started[o] = 0

\* C10: at most one runQuery of a metric is in progress at any time.
C10_OnePollPerMetric == \A m \in MetricNames : running[m] <= 1

\* C10 witness: the ticker fired twice during one poll, which is still running
C10_Witness ==
    \E m \in MetricNames :
        /\ running[m] = 1
        /\ pc[m] \in {"lock", "delete", "rows"}
        /\ tick[m]
        /\ fired[m] - taken[m] = 2

\* C11: once ctx.Done() is closed no path starts a runQuery: neither the
\* immediate first poll nor a poll for a tick that is in the channel.
C11_NoPollAfterShutdown ==
    [][cancelled => started' = started]_vars

\* the step ends a poll of m before the store is locked: the query failed,
\* the column list could not be read or there is no value column
EarlyFailure(m) == pc[m] = "query" /\ pc'[m] \notin {"query", "lock"}

\* the step ends a poll of m one of whose rows failed to scan or whose cursor
\* reported an error
RowFailure(m) ==
    /\ pc[m] = "rows"
    /\ pc'[m] # "rows"
    /\ \/ poll[m].res.rerr
       \/ \E i \in 1..Len(poll[m].res.rows) : poll[m].res.rows[i].scanErr

\* C12: a poll that fails (query error, column error, no value column, row
\* or cursor error) leaves its path at the select with the ticker and the
\* context as they were; a path ends only on shutdown; and a path at its
\* select with a tick in the channel can start the next poll, whatever the
\* outcome of the poll before.
C12_FailedPollKeepsPath ==
    /\ [][\A m \in MetricNames :
             (EarlyFailure(m) \/ RowFailure(m))
             => /\ pc'[m] = "select"
                /\ running'[m] = 0
                /\ tick' = tick
                /\ cancelled' = cancelled]_vars
    /\ [](\A m \in MetricNames :
             /\ pc[m] = "done" => cancelled
             /\ (pc[m] = "select" /\ tick[m]) => ENABLED TickPoll(m))

\* C12 witness: the first poll of one metric failed before the lock, the
\* first poll of the other ended with a cursor error, and both paths are at
\* their select with a tick waiting
C12_Witness ==
    /\ ~cancelled
    /\ \E m \in MetricNames : \E o \in MetricNames \ {m} :
          /\ pc[m] = "select" /\ started[m] = 1 /\ tick[m]
          /\ poll[m] = [res |-> ZeroRows, i |-> 1]
          /\ m \notin DOMAIN metrics
          /\ pc[o] = "select" /\ started[o] = 1 /\ tick[o]
          /\ poll[o].res = CursorFails

-----------------------------------------------------------------------------
(* Label values through the encoders: one poll of u whose result has one   *)
(* label column, then a request                                            *)

\* length of the label values the database returns
MaxLabelLen == 3

\* the characters of a label value: the three escapeLabelValue replaces, one
\* encoding/json escapes for HTML, and the letter n
LabelChars == {"\\", "\"", "\n", "<", "n"}

RECURSIVE StringsUpTo(_)
StringsUpTo(n) ==
    IF n = 0 THEN {<< >>}
    ELSE LET shorter == StringsUpTo(n - 1)
         IN  shorter \cup {Append(str, c) : str \in shorter, c \in LabelChars}

LabelStrings == StringsUpTo(MaxLabelLen)

\* SELECT k, value: one row whose label column holds str
LabelResult(str) == Res(<<ColK, VALUE>>, <<Row(<<Bytes(str), Int64(1)>>)>>)

\* the first poll of u
LabelPoll ==
    /\ last.op = "none"
    /\ \E str \in LabelStrings : RunQuery(U, LabelResult(str))

LabelNext ==
    \/ LabelPoll
    \/ HandleMetrics
    \/ HandleMetricsJSON

LabelSpec == SeqInit /\ [][LabelNext]_vars

\* what a reader of the Prometheus text format makes of the text between the
\* quotes of a label; a text that is no label value reads as Malformed
Malformed == <<"malformed">>

RECURSIVE Unescape(_)
Unescape(text) ==
    IF Len(text) = 0 THEN << >>
    ELSE IF Head(text) = "\\"
    THEN IF Len(text) < 2 THEN Malformed
         ELSE (CASE text[2] = "\\" -> <<"\\">>
                 [] text[2] = "n" -> <<"\n">>
                 [] text[2] = "\"" -> <<"\"">>
                 [] OTHER -> Malformed)
              \o Unescape(SubSeq(text, 3, Len(text)))
    ELSE IF Head(text) \in {"\"", "\n"} THEN Malformed
    ELSE <<Head(text)>> \o Unescape(Tail(text))

\* what a JSON parser makes of the text between the quotes of a string
RECURSIVE JSONParseString(_)
JSONParseString(text) ==
    IF Len(text) = 0 THEN << >>
    ELSE IF Head(text) = "\\"
    THEN IF Len(text) < 2 THEN Malformed
         ELSE IF text[2] = "u"
         THEN (IF Len(text) >= 6 /\ SubSeq(text, 3, 6) = <<"0", "0", "3", "c">>
               THEN <<"<">> ELSE Malformed)
              \o JSONParseString(SubSeq(text, 7, Len(text)))
         ELSE (CASE text[2] = "\\" -> <<"\\">>
                 [] text[2] = "n" -> <<"\n">>
                 [] text[2] = "\"" -> <<"\"">>
                 [] OTHER -> Malformed)
              \o JSONParseString(SubSeq(text, 3, Len(text)))
    ELSE IF Head(text) \in {"\"", "\n"} THEN Malformed
    ELSE <<Head(text)>> \o JSONParseString(Tail(text))

Specials(str) ==
    Cardinality({i \in 1..Len(str) : str[i] \in {"\\", "\n", "\""}})

\* C13: the Prometheus encoder writes every stored label value so that
\* un-escaping the text gives the value back, each backslash, newline and
\* double quote taking exactly one more character (none escaped twice); the
\* string the JSON document carries for the label is the stored value.
C13_LabelEscaping ==
    \A k \in DOMAIN last.before :
        last.before[k].isMap =>
            \A c \in DOMAIN last.before[k].labels :
                LET v == last.before[k].labels[c]
                IN  /\ last.op = "prom" =>
                           \E i \in 1..Len(last.out) :
                               /\ last.out[i].kind = "SAMPLE"
                               /\ \E j \in 1..Len(last.out[i].labels) :
                                      LET pair == last.out[i].labels[j]
                                      IN  /\ pair[1] = c
                                          /\ Unescape(pair[2]) = v
                                          /\ Len(pair[2]) = Len(v) + Specials(v)
                    /\ last.op = "json" =>
                           /\ BaseName(k) \in DOMAIN last.doc
                           /\ last.doc[BaseName(k)].isList
                           /\ \E i \in 1..Len(last.doc[BaseName(k)].list) :
                                  JSONParseString(
                                      last.doc[BaseName(k)].list[i].labels[c]) = v

\* C13 witness: /metrics was served from a store whose label value is a
\* backslash, a double quote and a newline
C13_Witness ==
    /\ last.op = "prom"
    /\ \E k \in DOMAIN last.before :
          /\ last.before[k].isMap
          /\ last.before[k].labels = (ColK :> <<"\\", "\"", "\n">>)
    /\ \E i \in 1..Len(last.out) : last.out[i].kind = "SAMPLE"

-----------------------------------------------------------------------------
(* LoadConfig: the intervals of the configuration main starts the app with *)

\* Config.Interval before the file and the environment are read, in seconds
DefaultInterval == 60

UnitSeconds(u) == IF u = "s" THEN 1 ELSE IF u = "m" THEN 60 ELSE 3600

\* time.ParseDuration on the interval strings below: a run of digits and one
\* unit letter is a duration (here in seconds), anything else an error
ParseDurationOk(str) ==
    /\ Len(str) >= 2
    /\ str[Len(str)] \in {"s", "m", "h"}
    /\ \A i \in 1..(Len(str) - 1) : IsDigit(str[i])

ParseDuration(str) ==
    ParseVal(SubSeq(str, 1, Len(str) - 1)) * UnitSeconds(str[Len(str)])

\* the "interval" strings of a file and the values of INTERVAL: absent (the
\* empty string), unparseable, and three durations
IntervalStrings ==
    {<< >>, <<"x">>, <<"3", "0", "s">>, <<"2", "m">>, <<"5", "m">>}

NoFile == [exists |-> FALSE, interval |-> << >>, metrics |-> << >>]

\* the configuration files: none, or one with both metrics
ConfigFiles ==
    {NoFile} \cup
    {[exists |-> TRUE, interval |-> g,
      metrics |-> <<[name |-> U, interval |-> a], [name |-> US, interval |-> b]>>] :
         g \in IntervalStrings, a \in IntervalStrings, b \in IntervalStrings}

\* LoadConfig(path) for the file at path and the value of INTERVAL: the
\* Interval fields of the Config it returns
LoadConfig(file, env) ==
    LET interval == IF file.exists /\ ParseDurationOk(file.interval)
                    THEN ParseDuration(file.interval)
                    ELSE DefaultInterval
        Metrics  == [i \in 1..Len(file.metrics) |->
                        [Name |-> file.metrics[i].name,
                         Interval |-> IF ParseDurationOk(file.metrics[i].interval)
                                      THEN ParseDuration(file.metrics[i].interval)
                                      ELSE interval]]
    IN  [Interval |-> IF env # << >> /\ ParseDurationOk(env)
                      THEN ParseDuration(env)
                      ELSE interval,
         Metrics  |-> Metrics]

\* main: config, err := LoadConfig(*configFile)
Load ==
    /\ last.op = "none"
    /\ \E file \in ConfigFiles : \E env \in IntervalStrings :
          last' = [op |-> "load", file |-> file, env |-> env,
                   config |-> LoadConfig(file, env)]
    /\ UNCHANGED <<metrics, schedVars>>

ConfigNext == Load

ConfigSpec == SeqInit /\ [][ConfigNext]_vars

\* C14: when INTERVAL holds a valid duration, every metric of the loaded
\* configuration whose own interval string is missing or unparseable has
\* the INTERVAL value as its interval.
C14_EnvIntervalIsDefault ==
    (last.op = "load" /\ last.env # << >> /\ ParseDurationOk(last.env)) =>
        \A i \in 1..Len(last.file.metrics) :
            ~ParseDurationOk(last.file.metrics[i].interval)
            => last.config.Metrics[i].Interval = ParseDuration(last.env)

-----------------------------------------------------------------------------
(* Further claims about runQuery and the store (sequential specification) *)

\* C15: a poll of metric M leaves every series of every other metric N,
\* labeled or unlabeled, in the store with the value it had, also when the
\* name of N is the name of M followed by an underscore and more.
C15_PollChangesOnlyItsFamily ==
    last.op = "poll" =>
        \A n \in MetricNames \ {last.m} :
            \A k \in SeriesKeys(last.before, n) :
                k \in DOMAIN metrics /\ metrics[k] = last.before[k]

\* the rows of the last poll that scanned, and the labels and value of each
Scanned == {i \in 1..Len(last.res.rows) : ~last.res.rows[i].scanErr}

LabelsOfRow(i) == RowLabels(last.res.columns, last.res.rows[i].vals)

ValueOfRow(i) ==
    last.res.rows[i].vals[CHOOSE c \in 1..Len(last.res.columns) :
                              last.res.columns[c] = VALUE]

\* the labeled series the rows of the last poll describe: for each label
\* set, the value of the last scanned row that has it
RowSeries ==
    {MapEntry(ValueOfRow(i), LabelsOfRow(i)) :
        i \in {r \in Scanned :
                  /\ DOMAIN LabelsOfRow(r) # {}
                  /\ \A later \in Scanned :
                         LabelsOfRow(later) = LabelsOfRow(r) => later <= r}}

\* C16: after a poll that passes the value-column check the labeled series
\* stored for the family are exactly those of the rows that scanned, the
\* last row winning on equal label sets (a failed scan skips its row only and
\* a cursor error undoes nothing), and no series the family held before the
\* poll is left: every series of the family was written by a row of this poll.
C16_FamilyIsExactlyScannedRows ==
    PolledOk =>
        LET labeled == {k \in SeriesKeys(metrics, last.m) : metrics[k].isMap}
        IN  /\ {metrics[k] : k \in labeled} = RowSeries
            /\ Cardinality(labeled) = Cardinality(RowSeries)
            /\ \A k \in SeriesKeys(metrics, last.m) \ labeled :
                   \E i \in Scanned :
                       /\ DOMAIN LabelsOfRow(i) = {}
                       /\ k = last.m
                       /\ metrics[k] = RawEntry(ValueOfRow(i))

-----------------------------------------------------------------------------
(* Further claims about scheduling (concurrent specification) *)

\* the triggers waiting in ticker.C
Pending(m) == IF tick[m] THEN 1 ELSE 0

\* C17: the ticks that fire while a poll runs are coalesced: whatever number
\* fired, one trigger at most waits when the poll returns and taking it
\* empties the channel, so every poll after the first answers a tick of its
\* own and the polls started never exceed one plus the ticks fired.
C17_TicksCoalesced ==
    /\ [](\A m \in MetricNames :
             /\ taken[m] + Pending(m) <= fired[m]
             /\ started[m] <= 1 + fired[m])
    /\ [][\A m \in MetricNames :
             taken'[m] # taken[m]
             => /\ tick[m]
                /\ ~tick'[m]
                /\ taken'[m] = taken[m] + 1
                /\ started'[m] = started[m] + 1]_vars

\* C17 witness: the first poll has returned after the ticker fired twice
\* during it, and one trigger waits
C17_Witness ==
    \E m \in MetricNames :
        /\ pc[m] = "select"
        /\ running[m] = 0
        /\ started[m] = 1
        /\ fired[m] = 2
        /\ taken[m] = 0
        /\ tick[m]

\* the diagnostics (log entries, counters) collectMetric has emitted for
\* ticks of m that were dropped: it has no log statement and no counter
SkipDiagnostics(m) == 0

\* C18: a tick that is dropped because the poll of its metric is still
\* running and a trigger is already waiting adds a diagnostic for that metric.
C18_DroppedTickObservable ==
    [][\A m \in MetricNames :
          (running[m] = 1 /\ tick[m] /\ fired'[m] = fired[m] + 1)
          => SkipDiagnostics(m)' > SkipDiagnostics(m)]_vars

-----------------------------------------------------------------------------
(* Further claims about the handlers (sequential specification) *)

\* C19: in the Prometheus output a stored value that is no number (NULL,
\* text that does not parse) has no line of any kind: the body has a HELP, a
\* TYPE and a sample line for each numeric entry and nothing else, the
\* sample of every numeric entry is there, and the store is as it was.
C19_NonNumericSkipped ==
    last.op = "prom" =>
        LET numeric == {k \in DOMAIN last.before : Numeric(last.before[k].value)}
            samples == {i \in 1..Len(last.out) : last.out[i].kind = "SAMPLE"}
        IN  /\ Len(last.out) = 3 * Cardinality(numeric)
            /\ Cardinality(samples) = Cardinality(numeric)
            /\ \A k \in numeric :
                   \E i \in samples :
                       /\ last.out[i].name = BaseName(k)
                       /\ last.out[i].val = Decimal(FloatOf(last.before[k].value))
                       /\ {last.out[i].labels[j] : j \in 1..Len(last.out[i].labels)}
                          = {<<c, escapeLabelValue(last.before[k].labels[c])>> :
                                c \in DOMAIN last.before[k].labels}
            /\ metrics = last.before

\* C19 witness: /metrics was served from a store that holds a NULL, a text
\* that is no number, and a number
C19_Witness ==
    /\ last.op = "prom"
    /\ \E k \in DOMAIN last.before : last.before[k].value = Nil
    /\ \E k \in DOMAIN last.before : last.before[k].value = Bytes(<<"x">>)
    /\ \E k \in DOMAIN last.before : Numeric(last.before[k].value)
    /\ Len(last.out) > 0

\* C20: a request to /metrics, /metrics.json or /health leaves the store as
\* it was and starts no poll: the polls started and running and the position
\* of every scheduling path are what they were before the request.
C20_RequestsOnlyRead ==
    [][last'.op \in {"prom", "json", "health"}
       => /\ metrics' = metrics
          /\ last'.before = metrics
          /\ started' = started
          /\ running' = running
          /\ pc' = pc
          /\ poll' = poll]_vars

\* C20 witness: /health was served from a store that polls had filled with
\* a labeled and an unlabeled series, which is still the store
C20_Witness ==
    /\ last.op = "health"
    /\ \E k \in DOMAIN metrics : metrics[k].isMap
    /\ \E k \in DOMAIN metrics : ~metrics[k].isMap
    /\ metrics = last.before

====
